---------------------------- MODULE Spec2Model ----------------------------
(***************************************************************************)
(* Model of contact_info_checker/contact_detector.py: the three pattern    *)
(* tables, contains_contact_info (boolean, short-circuiting) and           *)
(* detect_contact_info (detailed report).                                  *)
(*                                                                         *)
(* A text is a sequence of one-character strings.  A pattern is a syntax   *)
(* tree of the regular expression in the source, matched by a backtracking *)
(* matcher with the priorities of Python's re (greedy repetition, leftmost *)
(* alternative first).  The alphabet is ASCII.                             *)
(***************************************************************************)
EXTENDS Integers, Sequences, FiniteSets, TLC

----------------------------------------------------------------------------
(* Character classes of the source's regular expressions.                  *)

LowerSeq == << "a","b","c","d","e","f","g","h","i","j","k","l","m",
               "n","o","p","q","r","s","t","u","v","w","x","y","z" >>
UpperSeq == << "A","B","C","D","E","F","G","H","I","J","K","L","M",
               "N","O","P","Q","R","S","T","U","V","W","X","Y","Z" >>
Letters == { LowerSeq[i] : i \in 1..Len(LowerSeq) } \cup { UpperSeq[i] : i \in 1..Len(UpperSeq) }
Digits == { "0","1","2","3","4","5","6","7","8","9" }
\* \w : letters, digits and the underscore
WordChars == Letters \cup Digits \cup { "_" }
\* \s : whitespace
Spaces == { " ", "\t", "\n" }
\* [-.\s]
Separators == { "-", "." } \cup Spaces

\* re.IGNORECASE on a literal character: either case of a letter matches.
CaseFold(c) ==
    IF \E i \in 1..Len(LowerSeq) : LowerSeq[i] = c \/ UpperSeq[i] = c
    THEN LET i == CHOOSE j \in 1..Len(LowerSeq) : LowerSeq[j] = c \/ UpperSeq[j] = c
         IN  { LowerSeq[i], UpperSeq[i] }
    ELSE { c }

----------------------------------------------------------------------------
(* Syntax trees of regular expressions.                                    *)

Cls(S) == [t |-> "cls", s |-> S]
Chr(c) == Cls({c})
\* Every quantifier of the source applies to one character or class x.
\* x{lo,hi} ; x? , x+ , x{n} , x{n,}  (hi = -1 : no upper limit)
Rep(x, lo, hi) == [t |-> "rep", s |-> x.s, lo |-> lo, hi |-> hi]
Opt(x) == Rep(x, 0, 1)
Plus(x) == Rep(x, 1, -1)
Times(x, n) == Rep(x, n, n)
AtLeast(x, n) == Rep(x, n, -1)
Cat(xs) == [t |-> "cat", xs |-> xs]
Alt(xs) == [t |-> "alt", xs |-> xs]
WordB == [t |-> "wb"]
Bol == [t |-> "bol"]
\* a literal string, case-sensitive / under re.IGNORECASE
Lit(cs) == Cat([i \in 1..Len(cs) |-> Chr(cs[i])])
LitI(cs) == Cat([i \in 1..Len(cs) |-> Cls(CaseFold(cs[i]))])

----------------------------------------------------------------------------
(* The matcher.  Ends(n, s, i) is the sequence of offsets at which a match *)
(* of n starting at offset i of s can end, in the order in which the       *)
(* backtracking matcher tries them; its head is the match re reports.      *)

RECURSIVE Flat(_)
Flat(ss) == IF ss = << >> THEN << >> ELSE Head(ss) \o Flat(Tail(ss))

IsWordAt(s, k) == k >= 1 /\ k <= Len(s) /\ s[k] \in WordChars

\* \b at offset i: exactly one of the characters around it is a word character
WordBoundaryAt(s, i) == IsWordAt(s, i) # IsWordAt(s, i + 1)

\* The length of the longest run of characters of class S from offset i,
\* at most hi long when hi >= 0.
RunLength(S, hi, s, i) ==
    LET cap == IF hi >= 0 /\ hi < Len(s) - i THEN hi ELSE Len(s) - i
        runs == { k \in 0..cap : \A j \in 1..k : s[i + j] \in S }
    IN  CHOOSE k \in runs : \A m \in runs : m <= k

\* A greedy repetition of a character class: the longest run first, then
\* each shorter one down to lo characters.
RepEnds(S, lo, hi, s, i) ==
    LET k == RunLength(S, hi, s, i)
    IN  IF k < lo THEN << >> ELSE [j \in 1..(k - lo + 1) |-> i + k - j + 1]

RECURSIVE Ends(_, _, _), CatEnds(_, _, _, _)
Ends(n, s, i) ==
    CASE n.t = "cls" -> IF i < Len(s) /\ s[i + 1] \in n.s THEN << i + 1 >> ELSE << >>
      [] n.t = "wb"  -> IF WordBoundaryAt(s, i) THEN << i >> ELSE << >>
      [] n.t = "bol" -> IF i = 0 THEN << i >> ELSE << >>
      [] n.t = "cat" -> CatEnds(n.xs, 1, s, << i >>)
      [] n.t = "alt" -> Flat([k \in 1..Len(n.xs) |-> Ends(n.xs[k], s, i)])
      [] n.t = "rep" -> RepEnds(n.s, n.lo, n.hi, s, i)

CatEnds(xs, k, s, starts) ==
    IF k > Len(xs) \/ starts = << >> THEN starts
    ELSE CatEnds(xs, k + 1, s, Flat([j \in 1..Len(starts) |-> Ends(xs[k], s, starts[j])]))

----------------------------------------------------------------------------
(* The pattern tables as the module builds them at load time.  A table    *)
(* holds compiled patterns; a compiled pattern is written as its source   *)
(* text, and Compile gives the syntax tree re.compile makes of it.         *)

EmailLocal == Cls(Letters \cup Digits \cup { ".", "_", "%", "+", "-" })
EmailDomain == Cls(Letters \cup Digits \cup { ".", "-" })
Digit == Cls(Digits)
Sep == Opt(Cls(Separators))
Plus63 == Lit(<< "+", "6", "3" >>)
HandleChars == Cls(Letters \cup Digits \cup { "_" })

\* [a-zA-Z0-9._%+-]+@[a-zA-Z0-9.-]+\.[a-zA-Z]{2,}
EmailTree ==
    Cat(<< Plus(EmailLocal), Chr("@"), Plus(EmailDomain), Chr("."), AtLeast(Cls(Letters), 2) >>)

PhoneTrees == <<
    \* \+63[-.\s]?9\d{2}[-.\s]?\d{3}[-.\s]?\d{4}
    Cat(<< Plus63, Sep, Chr("9"), Times(Digit, 2), Sep, Times(Digit, 3), Sep, Times(Digit, 4) >>),
    \* \b09\d{2}[-.\s]?\d{3}[-.\s]?\d{4}\b
    Cat(<< WordB, Chr("0"), Chr("9"), Times(Digit, 2), Sep, Times(Digit, 3), Sep, Times(Digit, 4), WordB >>),
    \* \+63[-.\s]?2[-.\s]?\d{4}[-.\s]?\d{4}
    Cat(<< Plus63, Sep, Chr("2"), Sep, Times(Digit, 4), Sep, Times(Digit, 4) >>),
    \* \+63[-.\s]?\d{2}[-.\s]?\d{3}[-.\s]?\d{4}
    Cat(<< Plus63, Sep, Times(Digit, 2), Sep, Times(Digit, 3), Sep, Times(Digit, 4) >>),
    \* \(?\b02\)?[-.\s]?\d{4}[-.\s]?\d{4}\b
    Cat(<< Opt(Chr("(")), WordB, Chr("0"), Chr("2"), Opt(Chr(")")), Sep,
           Times(Digit, 4), Sep, Times(Digit, 4), WordB >>),
    \* \(?\b0\d{2}\)?[-.\s]?\d{3}[-.\s]?\d{4}\b
    Cat(<< Opt(Chr("(")), WordB, Chr("0"), Times(Digit, 2), Opt(Chr(")")), Sep,
           Times(Digit, 3), Sep, Times(Digit, 4), WordB >>),
    \* \b09\d{9}\b
    Cat(<< WordB, Chr("0"), Chr("9"), Times(Digit, 9), WordB >>),
    \* \b\d{10,12}\b
    Cat(<< WordB, Rep(Digit, 10, 12), WordB >>) >>

SocialTrees == <<
    \* (?:^|[\s(])@[a-zA-Z_][a-zA-Z0-9_]{0,14}\b
    Cat(<< Alt(<< Bol, Cls(Spaces \cup { "(" }) >>), Chr("@"),
           Cls(Letters \cup { "_" }), Rep(HandleChars, 0, 14), WordB >>),
    \* linkedin\.com/in/[a-zA-Z0-9_-]+
    Cat(<< LitI(<< "l","i","n","k","e","d","i","n",".","c","o","m","/","i","n","/" >>),
           Plus(Cls(Letters \cup Digits \cup { "_", "-" })) >>),
    \* github\.com/[a-zA-Z0-9_-]+
    Cat(<< LitI(<< "g","i","t","h","u","b",".","c","o","m","/" >>),
           Plus(Cls(Letters \cup Digits \cup { "_", "-" })) >>),
    \* (?:twitter|x)\.com/[a-zA-Z0-9_]+
    Cat(<< Alt(<< LitI(<< "t","w","i","t","t","e","r" >>), LitI(<< "x" >>) >>),
           LitI(<< ".","c","o","m","/" >>), Plus(HandleChars) >>),
    \* instagram\.com/[a-zA-Z0-9_.]+
    Cat(<< LitI(<< "i","n","s","t","a","g","r","a","m",".","c","o","m","/" >>),
           Plus(Cls(Letters \cup Digits \cup { "_", "." })) >>),
    \* facebook\.com/[a-zA-Z0-9.]+
    Cat(<< LitI(<< "f","a","c","e","b","o","o","k",".","c","o","m","/" >>),
           Plus(Cls(Letters \cup Digits \cup { "." })) >>),
    \* (?:t\.me|telegram\.me)/[a-zA-Z0-9_]+
    Cat(<< Alt(<< LitI(<< "t",".","m","e" >>),
                  LitI(<< "t","e","l","e","g","r","a","m",".","m","e" >>) >>),
           Chr("/"), Plus(HandleChars) >>),
    \* wa\.me/\d+
    Cat(<< LitI(<< "w","a",".","m","e","/" >>), Plus(Digit) >>) >>

\* EMAIL_PATTERN, PHONE_PATTERNS and SOCIAL_PATTERNS after the module's load.
EmailPatternInit == "[a-zA-Z0-9._%+-]+@[a-zA-Z0-9.-]+\\.[a-zA-Z]{2,}"

PhonePatternsInit == <<
    "\\+63[-.\\s]?9\\d{2}[-.\\s]?\\d{3}[-.\\s]?\\d{4}",
    "\\b09\\d{2}[-.\\s]?\\d{3}[-.\\s]?\\d{4}\\b",
    "\\+63[-.\\s]?2[-.\\s]?\\d{4}[-.\\s]?\\d{4}",
    "\\+63[-.\\s]?\\d{2}[-.\\s]?\\d{3}[-.\\s]?\\d{4}",
    "\\(?\\b02\\)?[-.\\s]?\\d{4}[-.\\s]?\\d{4}\\b",
    "\\(?\\b0\\d{2}\\)?[-.\\s]?\\d{3}[-.\\s]?\\d{4}\\b",
    "\\b09\\d{9}\\b",
    "\\b\\d{10,12}\\b" >>

SocialPatternsInit == <<
    "(?:^|[\\s(])@[a-zA-Z_][a-zA-Z0-9_]{0,14}\\b",
    "linkedin\\.com/in/[a-zA-Z0-9_-]+",
    "github\\.com/[a-zA-Z0-9_-]+",
    "(?:twitter|x)\\.com/[a-zA-Z0-9_]+",
    "instagram\\.com/[a-zA-Z0-9_.]+",
    "facebook\\.com/[a-zA-Z0-9.]+",
    "(?:t\\.me|telegram\\.me)/[a-zA-Z0-9_]+",
    "wa\\.me/\\d+" >>

\* re.compile: the syntax tree of a pattern of the module.
Compile(p) ==
    LET sources == << EmailPatternInit >> \o PhonePatternsInit \o SocialPatternsInit
        trees == << EmailTree >> \o PhoneTrees \o SocialTrees
    IN  trees[CHOOSE i \in 1..Len(sources) : sources[i] = p]

----------------------------------------------------------------------------
(* Pattern.search and Pattern.findall.                                     *)

\* No match.
NoMatch == [found |-> FALSE]

\* Pattern.search(s) from offset pos: the leftmost match at or after pos.
SearchFrom(p, s, pos) ==
    LET tree == Compile(p)
        starts == { i \in pos..Len(s) : Ends(tree, s, i) # << >> }
    IN  IF starts = {} THEN NoMatch
        ELSE LET st == CHOOSE i \in starts : \A j \in starts : i <= j
             IN  [found |-> TRUE, start |-> st, end |-> Head(Ends(tree, s, st))]

\* Variant: re.match in place of re.search, a match at offset 0 only.
SearchAtStart(p, s) == Ends(Compile(p), s, 0) # << >>

\* Pattern.search(text): truthy iff the pattern matches anywhere.
Search(p, s) == \E i \in 0..Len(s) : Ends(Compile(p), s, i) # << >>

\* s[start:end]
Slice(s, start, end) == SubSeq(s, start + 1, end)

\* Pattern.findall(text) of a pattern without capturing groups: the whole
\* text of every non-overlapping match, left to right.
RECURSIVE FindAllFrom(_, _, _)
FindAllFrom(p, s, pos) ==
    LET m == SearchFrom(p, s, pos)
    IN  IF ~m.found THEN << >>
        ELSE << Slice(s, m.start, m.end) >>
             \o FindAllFrom(p, s, IF m.end = m.start THEN m.end + 1 ELSE m.end)

FindAll(p, s) == FindAllFrom(p, s, 0)

----------------------------------------------------------------------------
(* Python values.                                                          *)

\* The argument of a call: None, or a str of the given characters.
PyNone == [none |-> TRUE]
PyStr(cs) == [none |-> FALSE, chars |-> cs]

\* Variant: text == "" in place of not text, which lets None through.
IsEmptyStr(text) == ~text.none /\ text.chars = << >>

\* `not text`: None and the empty string are falsy.
IsFalsy(text) == text.none \/ text.chars = << >>

\* The elements of a list.
SetOf(list) == { list[i] : i \in 1..Len(list) }

\* The distinct elements of a list, each at its first position.
RECURSIVE Distinct(_)
Distinct(list) ==
    IF list = << >> THEN << >>
    ELSE LET init == Distinct(SubSeq(list, 1, Len(list) - 1))
             last == list[Len(list)]
         IN  IF last \in SetOf(init) THEN init ELSE Append(init, last)

RemoveAt(list, i) == SubSeq(list, 1, i - 1) \o SubSeq(list, i + 1, Len(list))

\* The n-th arrangement of a list.
RECURSIVE Arrangement(_, _)
Arrangement(list, n) ==
    IF list = << >> THEN << >>
    ELSE LET i == (n % Len(list)) + 1
         IN  << list[i] >> \o Arrangement(RemoveAt(list, i), n \div Len(list))

\* list(set(list)): the distinct elements, in the iteration order of a set
\* of str, which the process's string-hash seed decides.
ListOfSet(list, seed) == Arrangement(Distinct(list), seed)

----------------------------------------------------------------------------
(* contains_contact_info                                                   *)

\* Variant: the loop remembers a match and goes on to the end of the table.
RECURSIVE AnyMatchNoBreak(_, _, _)
AnyMatchNoBreak(patterns, s, k) ==
    IF k > Len(patterns) THEN [hit |-> FALSE, n |-> Len(patterns)]
    ELSE [hit |-> Search(patterns[k], s) \/ AnyMatchNoBreak(patterns, s, k + 1).hit,
          n |-> Len(patterns)]

\* for pattern in patterns: if pattern.search(text): return True
\* hit: whether the loop returned; n: how many patterns it evaluated.
RECURSIVE AnyMatch(_, _, _)
AnyMatch(patterns, s, k) ==
    IF k > Len(patterns) THEN [hit |-> FALSE, n |-> Len(patterns)]
    ELSE IF Search(patterns[k], s) THEN [hit |-> TRUE, n |-> k]
    ELSE AnyMatch(patterns, s, k + 1)

\* The matchers a loop evaluated, by category and position in its table.
Evaluated(cat, n) == [k \in 1..n |-> << cat, k >>]

\* A returned value, with the matchers evaluated on the way, or a raised
\* exception (re raises TypeError when handed None).
Returned(v, ev) == [called |-> TRUE, raised |-> FALSE, ret |-> v, evaluated |-> ev]
Raised == [called |-> TRUE, raised |-> TRUE]
NotCalled == [called |-> FALSE]

contains_contact_info(text, email, phones, socials) ==
    IF IsFalsy(text) THEN Returned(FALSE, << >>)
    ELSE IF text.none THEN Raised
    ELSE IF Search(email, text.chars) THEN Returned(TRUE, Evaluated("email", 1))
    ELSE LET ph == AnyMatch(phones, text.chars, 1)
             evp == Evaluated("email", 1) \o Evaluated("phone", ph.n)
         IN  IF ph.hit THEN Returned(TRUE, evp)
             ELSE LET so == AnyMatch(socials, text.chars, 1)
                  IN  Returned(so.hit, evp \o Evaluated("social", so.n))

----------------------------------------------------------------------------
(* detect_contact_info                                                     *)

\* Variant: the loop breaks at the first pattern that matched.
RECURSIVE ExtendFirstHit(_, _, _)
ExtendFirstHit(patterns, s, k) ==
    IF k > Len(patterns) THEN << >>
    ELSE IF FindAll(patterns[k], s) # << >> THEN FindAll(patterns[k], s)
    ELSE ExtendFirstHit(patterns, s, k + 1)

\* for pattern in patterns: found[...].extend(pattern.findall(text))
RECURSIVE ExtendAll(_, _, _)
ExtendAll(patterns, s, k) ==
    IF k > Len(patterns) THEN << >>
    ELSE FindAll(patterns[k], s) \o ExtendAll(patterns, s, k + 1)

\* Variant: the social loop extends found['phones'].
FoundMisfiled(s, email, phones, socials, seed) ==
    [emails |-> FindAll(email, s),
     phones |-> ListOfSet(ExtendAll(phones, s, 1) \o ExtendAll(socials, s, 1), seed),
     social |-> << >>]

\* Variant: each loop assigns the matches where it should extend the list.
FoundAssigned(s, email, phones, socials, seed) ==
    [emails |-> FindAll(email, s),
     phones |-> ListOfSet(FindAll(phones[Len(phones)], s), seed),
     social |-> ListOfSet(FindAll(socials[Len(socials)], s), seed)]

\* The dict `found` when the three categories have been searched.
Found(s, email, phones, socials, seed) ==
    [emails |-> FindAll(email, s),
     phones |-> ListOfSet(ExtendAll(phones, s, 1), seed),
     social |-> ListOfSet(ExtendAll(socials, s, 1), seed)]

\* Variant: the social category is left out of the flag.
HasContactNoSocial(found) == found.emails # << >> \/ found.phones # << >>

\* bool(found['emails'] or found['phones'] or found['social'])
has_contact(found) ==
    found.emails # << >> \/ found.phones # << >> \/ found.social # << >>

\* details={}
EmptyDict == [k \in {} |-> << >>]

DetectionResult(has, details) ==
    [called |-> TRUE, raised |-> FALSE, has_contact_info |-> has, details |-> details]

detect_contact_info(text, email, phones, socials, seed) ==
    IF IsFalsy(text) THEN DetectionResult(FALSE, EmptyDict)
    ELSE IF text.none THEN Raised
    ELSE LET found == Found(text.chars, email, phones, socials, seed)
         IN  DetectionResult(has_contact(found), found)

----------------------------------------------------------------------------
(* Inputs.                                                                 *)

\* The demonstration's test cases.
test_cases == <<
    << "I"," ","w","o","r","k","e","d"," ","a","t"," ","G","o","o","g","l","e"," ","f","o","r"," ","5"," ","y","e","a","r","s"," ","a","s"," ","a"," ","s","o","f","t","w","a","r","e"," ","e","n","g","i","n","e","e","r","." >>,
    << "C","o","n","t","a","c","t"," ","m","e"," ","a","t"," ","j","o","h","n",".","d","o","e","@","e","m","a","i","l",".","c","o","m"," ","f","o","r"," ","m","o","r","e"," ","d","e","t","a","i","l","s","." >>,
    << "C","a","l","l"," ","m","e"," ","a","t"," ","0","9","1","7","-","1","2","3","-","4","5","6","7"," ","t","o"," ","d","i","s","c","u","s","s","." >>,
    << "F","i","n","d"," ","m","e"," ","o","n"," ","L","i","n","k","e","d","I","n",":"," ","l","i","n","k","e","d","i","n",".","c","o","m","/","i","n","/","j","o","h","n","d","o","e" >>,
    << "F","o","l","l","o","w"," ","@","j","o","h","n","d","o","e"," ","o","n"," ","T","w","i","t","t","e","r"," ","f","o","r"," ","u","p","d","a","t","e","s","." >>,
    << "M","y"," ","n","u","m","b","e","r"," ","i","s"," ","+","6","3"," ","9","1","7"," ","1","2","3"," ","4","5","6","7" >>,
    << "R","e","a","c","h"," ","o","u","t"," ","v","i","a"," ","t","e","l","e","g","r","a","m",":"," ","t",".","m","e","/","j","o","h","n","d","o","e" >>,
    << "1","0"," ","y","e","a","r","s"," ","e","x","p","e","r","i","e","n","c","e"," ","i","n"," ","P","y","t","h","o","n",","," ","J","a","v","a","S","c","r","i","p","t",","," ","a","n","d"," ","c","l","o","u","d"," ","i","n","f","r","a","s","t","r","u","c","t","u","r","e","." >>,
    << "L","a","n","d","l","i","n","e",":"," ","(","0","2",")"," ","8","1","2","3","-","4","5","6","7" >>,
    << "T","e","x","t"," ","m","e"," ","a","t"," ","0","9","1","7","1","2","3","4","5","6","7" >>,
    << "O","f","f","i","c","e",":"," ","+","6","3"," ","2"," ","8","8","8","8"," ","1","2","3","4" >> >>

\* Pieces of text: a space, a handle, an address, a number that several
\* phone patterns match, a word.
Fragments == <<
    << " " >>,
    << "@","j","o","e" >>,
    << "a","@","b",".","c","o" >>,
    << "+","6","3","9","1","7","1","2","3","4","5","6","7" >>,
    << "H","i" >> >>

\* The longest text, in fragments.
MaxFragments == 3
\* How many string-hash seeds a process may have started with.
HashSeeds == 2

\* The texts of exactly n fragments.
RECURSIVE TextsOf(_)
TextsOf(n) ==
    IF n = 0 THEN { << >> }
    ELSE { t \o Fragments[f] : t \in TextsOf(n - 1), f \in 1..Len(Fragments) }

Inputs ==
    { PyNone } \cup { PyStr(test_cases[i]) : i \in 1..Len(test_cases) }
               \cup { PyStr(t) : t \in UNION { TextsOf(n) : n \in 0..MaxFragments } }

----------------------------------------------------------------------------
(* State.                                                                  *)

VARIABLES
    EMAIL_PATTERN,   \* the module-level pattern tables
    PHONE_PATTERNS,
    SOCIAL_PATTERNS,
    hashSeed,        \* the process's string-hash seed
    text,            \* the input under analysis
    quick,           \* what contains_contact_info(text) returned, once called
    detail,          \* what detect_contact_info(text) returned, once called
    pc,              \* per thread: where its call stands
    fn,              \* per thread: the function it called
    arg,             \* per thread: the text it passed
    idx,             \* per thread: the position of its loop in the table
    acc,             \* per thread: its locals (the matchers evaluated, or found)
    result           \* per thread: what its call returned

tables == << EMAIL_PATTERN, PHONE_PATTERNS, SOCIAL_PATTERNS >>
single == << text, quick, detail >>
threads == << pc, fn, arg, idx, acc, result >>
vars == << tables, hashSeed, single, threads >>

\* The threads that call into the module.
Callers == { "t1", "t2" }

\* No thread is inside a call.
Idle ==
    /\ pc = [c \in Callers |-> "idle"]
    /\ fn = [c \in Callers |-> "none"]
    /\ arg = [c \in Callers |-> PyNone]
    /\ idx = [c \in Callers |-> 0]
    /\ acc = [c \in Callers |-> << >>]
    /\ result = [c \in Callers |-> NotCalled]

\* The module is loaded: the tables are compiled, nothing has been called.
Loaded ==
    /\ EMAIL_PATTERN = EmailPatternInit
    /\ PHONE_PATTERNS = PhonePatternsInit
    /\ SOCIAL_PATTERNS = SocialPatternsInit
    /\ hashSeed \in 0..(HashSeeds - 1)

Init ==
    /\ Loaded
    /\ text \in Inputs
    /\ quick = NotCalled
    /\ detail = NotCalled
    /\ Idle

\* check(text) / contains_contact_info(text)
CallContains ==
    /\ ~quick.called
    /\ quick' = contains_contact_info(text, EMAIL_PATTERN, PHONE_PATTERNS, SOCIAL_PATTERNS)
    /\ UNCHANGED << tables, hashSeed, text, detail, threads >>

\* detect_contact_info(text)
CallDetect ==
    /\ ~detail.called
    /\ detail' = detect_contact_info(text, EMAIL_PATTERN, PHONE_PATTERNS, SOCIAL_PATTERNS, hashSeed)
    /\ UNCHANGED << tables, hashSeed, text, quick, threads >>

Next == CallContains \/ CallDetect

Spec == Init /\ [][Next]_vars

----------------------------------------------------------------------------
(* Calls from several threads, one step of a call at a time.  A step reads *)
(* the table it uses when it is taken.                                     *)

\* The texts the threads pass: none, one without contact information, one
\* with a phone number, one with a handle.
ThreadInputs ==
    { PyNone, PyStr(test_cases[1]), PyStr(test_cases[6]), PyStr(test_cases[5]) }

\* A thread calls one of the two functions.
Call(c) ==
    /\ pc[c] = "idle"
    /\ \E f \in { "contains", "detect" }, t \in ThreadInputs :
          /\ fn' = [fn EXCEPT ![c] = f]
          /\ arg' = [arg EXCEPT ![c] = t]
          /\ acc' = [acc EXCEPT ![c] =
                        IF f = "contains" THEN << >>
                        ELSE [emails |-> << >>, phones |-> << >>, social |-> << >>]]
    /\ pc' = [pc EXCEPT ![c] = "check"]
    /\ UNCHANGED << tables, hashSeed, single, idx, result >>

\* if not text: return ...
Check(c) ==
    /\ pc[c] = "check"
    /\ IF IsFalsy(arg[c])
       THEN /\ result' = [result EXCEPT ![c] =
                            IF fn[c] = "contains" THEN Returned(FALSE, << >>)
                            ELSE DetectionResult(FALSE, EmptyDict)]
            /\ pc' = [pc EXCEPT ![c] = "done"]
       ELSE IF arg[c].none
       THEN /\ result' = [result EXCEPT ![c] = Raised]
            /\ pc' = [pc EXCEPT ![c] = "done"]
       ELSE /\ pc' = [pc EXCEPT ![c] = "email"]
            /\ UNCHANGED result
    /\ UNCHANGED << tables, hashSeed, single, fn, arg, idx, acc >>

\* if EMAIL_PATTERN.search(text): return True
\* found['emails'] = EMAIL_PATTERN.findall(text)
Email(c) ==
    /\ pc[c] = "email"
    /\ IF fn[c] = "contains"
       THEN LET ev == acc[c] \o Evaluated("email", 1)
            IN  IF Search(EMAIL_PATTERN, arg[c].chars)
                THEN /\ result' = [result EXCEPT ![c] = Returned(TRUE, ev)]
                     /\ pc' = [pc EXCEPT ![c] = "done"]
                     /\ UNCHANGED << acc, idx >>
                ELSE /\ acc' = [acc EXCEPT ![c] = ev]
                     /\ pc' = [pc EXCEPT ![c] = "phone"]
                     /\ idx' = [idx EXCEPT ![c] = 1]
                     /\ UNCHANGED result
       ELSE /\ acc' = [acc EXCEPT ![c].emails = FindAll(EMAIL_PATTERN, arg[c].chars)]
            /\ pc' = [pc EXCEPT ![c] = "phone"]
            /\ idx' = [idx EXCEPT ![c] = 1]
            /\ UNCHANGED result
    /\ UNCHANGED << tables, hashSeed, single, fn, arg >>

\* Variant: the loop takes its patterns off the shared table.
PhoneNextPop(c) ==
    /\ pc[c] = "phone"
    /\ PHONE_PATTERNS # << >>
    /\ PHONE_PATTERNS' = Tail(PHONE_PATTERNS)
    /\ IF fn[c] = "contains"
       THEN LET ev == Append(acc[c], << "phone", idx[c] >>)
            IN  IF Search(Head(PHONE_PATTERNS), arg[c].chars)
                THEN /\ result' = [result EXCEPT ![c] = Returned(TRUE, ev)]
                     /\ pc' = [pc EXCEPT ![c] = "done"]
                     /\ UNCHANGED << acc, idx >>
                ELSE /\ acc' = [acc EXCEPT ![c] = ev]
                     /\ idx' = [idx EXCEPT ![c] = @ + 1]
                     /\ UNCHANGED << pc, result >>
       ELSE /\ acc' = [acc EXCEPT ![c].phones = @ \o FindAll(Head(PHONE_PATTERNS), arg[c].chars)]
            /\ idx' = [idx EXCEPT ![c] = @ + 1]
            /\ UNCHANGED << pc, result >>
    /\ UNCHANGED << EMAIL_PATTERN, SOCIAL_PATTERNS, hashSeed, single, fn, arg >>

\* One iteration of `for pattern in PHONE_PATTERNS`.
PhoneNext(c) ==
    /\ pc[c] = "phone"
    /\ idx[c] <= Len(PHONE_PATTERNS)
    /\ IF fn[c] = "contains"
       THEN LET ev == Append(acc[c], << "phone", idx[c] >>)
            IN  IF Search(PHONE_PATTERNS[idx[c]], arg[c].chars)
                THEN /\ result' = [result EXCEPT ![c] = Returned(TRUE, ev)]
                     /\ pc' = [pc EXCEPT ![c] = "done"]
                     /\ UNCHANGED << acc, idx >>
                ELSE /\ acc' = [acc EXCEPT ![c] = ev]
                     /\ idx' = [idx EXCEPT ![c] = @ + 1]
                     /\ UNCHANGED << pc, result >>
       ELSE /\ acc' = [acc EXCEPT ![c].phones = @ \o FindAll(PHONE_PATTERNS[idx[c]], arg[c].chars)]
            /\ idx' = [idx EXCEPT ![c] = @ + 1]
            /\ UNCHANGED << pc, result >>
    /\ UNCHANGED << tables, hashSeed, single, fn, arg >>

\* The phone loop is exhausted; found['phones'] = list(set(found['phones']))
PhoneEnd(c) ==
    /\ pc[c] = "phone"
    /\ idx[c] > Len(PHONE_PATTERNS)
    /\ acc' = [acc EXCEPT ![c] =
                  IF fn[c] = "contains" THEN @
                  ELSE [@ EXCEPT !.phones = ListOfSet(@, hashSeed)]]
    /\ pc' = [pc EXCEPT ![c] = "social"]
    /\ idx' = [idx EXCEPT ![c] = 1]
    /\ UNCHANGED << tables, hashSeed, single, fn, arg, result >>

\* One iteration of `for pattern in SOCIAL_PATTERNS`.
SocialNext(c) ==
    /\ pc[c] = "social"
    /\ idx[c] <= Len(SOCIAL_PATTERNS)
    /\ IF fn[c] = "contains"
       THEN LET ev == Append(acc[c], << "social", idx[c] >>)
            IN  IF Search(SOCIAL_PATTERNS[idx[c]], arg[c].chars)
                THEN /\ result' = [result EXCEPT ![c] = Returned(TRUE, ev)]
                     /\ pc' = [pc EXCEPT ![c] = "done"]
                     /\ UNCHANGED << acc, idx >>
                ELSE /\ acc' = [acc EXCEPT ![c] = ev]
                     /\ idx' = [idx EXCEPT ![c] = @ + 1]
                     /\ UNCHANGED << pc, result >>
       ELSE /\ acc' = [acc EXCEPT ![c].social = @ \o FindAll(SOCIAL_PATTERNS[idx[c]], arg[c].chars)]
            /\ idx' = [idx EXCEPT ![c] = @ + 1]
            /\ UNCHANGED << pc, result >>
    /\ UNCHANGED << tables, hashSeed, single, fn, arg >>

\* The social loop is exhausted: return False, or dedupe, compute
\* has_contact and return the DetectionResult.
SocialEnd(c) ==
    /\ pc[c] = "social"
    /\ idx[c] > Len(SOCIAL_PATTERNS)
    /\ result' = [result EXCEPT ![c] =
                    IF fn[c] = "contains" THEN Returned(FALSE, acc[c])
                    ELSE LET found == [acc[c] EXCEPT !.social = ListOfSet(@, hashSeed)]
                         IN  DetectionResult(has_contact(found), found)]
    /\ pc' = [pc EXCEPT ![c] = "done"]
    /\ UNCHANGED << tables, hashSeed, single, fn, arg, idx, acc >>

\* The caller takes the result; its locals are gone.
Return(c) ==
    /\ pc[c] = "done"
    /\ pc' = [pc EXCEPT ![c] = "idle"]
    /\ fn' = [fn EXCEPT ![c] = "none"]
    /\ arg' = [arg EXCEPT ![c] = PyNone]
    /\ idx' = [idx EXCEPT ![c] = 0]
    /\ acc' = [acc EXCEPT ![c] = << >>]
    /\ result' = [result EXCEPT ![c] = NotCalled]
    /\ UNCHANGED << tables, hashSeed, single >>

ThreadsInit ==
    /\ Loaded
    /\ text = PyNone
    /\ quick = NotCalled
    /\ detail = NotCalled
    /\ Idle

ThreadsNext ==
    \E c \in Callers :
        \/ Call(c)
        \/ Check(c)
        \/ Email(c)
        \/ PhoneNext(c)
        \/ PhoneEnd(c)
        \/ SocialNext(c)
        \/ SocialEnd(c)
        \/ Return(c)

ThreadsSpec == ThreadsInit /\ [][ThreadsNext]_vars

\* What a call returns when nothing else runs.
Alone(f, t, seed) ==
    IF f = "contains"
    THEN contains_contact_info(t, EmailPatternInit, PhonePatternsInit, SocialPatternsInit)
    ELSE detect_contact_info(t, EmailPatternInit, PhonePatternsInit, SocialPatternsInit, seed)

\* C5: no call writes shared state: whatever the interleaving, the tables
\* are those of load time, a call returns what it returns when run alone,
\* and two calls of a function on the same text return the same.
C5_NoSharedWrites ==
    /\ EMAIL_PATTERN = EmailPatternInit
    /\ PHONE_PATTERNS = PhonePatternsInit
    /\ SOCIAL_PATTERNS = SocialPatternsInit
    /\ \A c \in Callers :
          pc[c] = "done" => result[c] = Alone(fn[c], arg[c], hashSeed)
    /\ \A c, d \in Callers :
          (pc[c] = "done" /\ pc[d] = "done" /\ fn[c] = fn[d] /\ arg[c] = arg[d])
              => result[c] = result[d]

\* A detailed call has returned a flagged result while another thread's
\* detailed call is inside its social loop.
C5_Witness ==
    /\ pc["t1"] = "done" /\ fn["t1"] = "detect"
    /\ result["t1"].has_contact_info
    /\ pc["t2"] = "social" /\ fn["t2"] = "detect" /\ idx["t2"] > 1

----------------------------------------------------------------------------
(* Properties of the two functions on one input.                           *)

NonEmptyText == ~text.none /\ text.chars # << >>
Detailed == detail.called /\ NonEmptyText

\* C1: the boolean check returns what the detailed check flags, for every
\* input, the empty and the absent one included.
C1_QuickEqualsDetailed ==
    (quick.called /\ detail.called) =>
        /\ ~quick.raised /\ ~detail.raised
        /\ quick.ret = detail.has_contact_info

\* Both were called on a text where only the last category has a match.
C1_Witness ==
    /\ quick.called /\ Detailed
    /\ quick.ret
    /\ detail.details.emails = << >> /\ detail.details.phones = << >>

\* C2: the flag of a result is true exactly when some category of its
\* mapping is non-empty; the mapping of the empty-input result has none.
C2_FlagIffSomeCategory ==
    detail.called =>
        /\ ~detail.raised
        /\ detail.has_contact_info <=>
              \E k \in DOMAIN detail.details : detail.details[k] # << >>
        /\ ~NonEmptyText => DOMAIN detail.details = {}

\* A result whose only non-empty category is the social one.
C2_Witness ==
    /\ Detailed
    /\ detail.has_contact_info
    /\ detail.details.emails = << >> /\ detail.details.phones = << >>
    /\ detail.details.social # << >>

NoDuplicates(list) == \A i, j \in 1..Len(list) : list[i] = list[j] => i = j

\* C3: no category of a result lists a substring twice.
C3_CategoriesAreSets ==
    Detailed => \A k \in DOMAIN detail.details : NoDuplicates(detail.details[k])

\* C4: for the empty and the absent input the boolean check returns false
\* having evaluated no pattern, the detailed check returns a false flag and
\* an empty mapping, and neither raises.
C4_EmptyInput ==
    (text = PyNone \/ text = PyStr(<< >>)) =>
        /\ quick.called =>
              ~quick.raised /\ quick.ret = FALSE /\ quick.evaluated = << >>
        /\ detail.called =>
              /\ ~detail.raised
              /\ detail.has_contact_info = FALSE
              /\ DOMAIN detail.details = {}

\* Both functions have returned for the absent input.
C4_Witness == text = PyNone /\ quick.called /\ detail.called

\* C6: every substring a category lists is matched, on its own, by a
\* pattern of that category.
C6_ReportedSubstringsMatch ==
    Detailed =>
        /\ \A m \in SetOf(detail.details.emails) : Search(EmailPatternInit, m)
        /\ \A m \in SetOf(detail.details.phones) :
              \E k \in 1..Len(PhonePatternsInit) : Search(PhonePatternsInit[k], m)
        /\ \A m \in SetOf(detail.details.social) :
              \E k \in 1..Len(SocialPatternsInit) : Search(SocialPatternsInit[k], m)

\* All three categories list something.
C6_Witness ==
    /\ Detailed
    /\ detail.details.emails # << >>
    /\ detail.details.phones # << >>
    /\ detail.details.social # << >>

\* Other orders of a table: backwards, and rotated by one.
Reversed(t) == [k \in 1..Len(t) |-> t[Len(t) - k + 1]]
Rotated(t) == [k \in 1..Len(t) |-> t[(k % Len(t)) + 1]]
Reorderings(t) == << Reversed(t), Rotated(t) >>

\* C7: evaluating the patterns of a category in another order changes
\* neither the set of substrings reported for it nor the boolean check.
C7_OrderIndependent ==
    NonEmptyText =>
        \A o \in 1..Len(Reorderings(PHONE_PATTERNS)) :
            LET ph == Reorderings(PHONE_PATTERNS)[o]
                so == Reorderings(SOCIAL_PATTERNS)[o]
            IN  /\ detail.called =>
                      LET f == Found(text.chars, EMAIL_PATTERN, ph, so, hashSeed)
                      IN  /\ SetOf(f.phones) = SetOf(detail.details.phones)
                          /\ SetOf(f.social) = SetOf(detail.details.social)
                /\ quick.called =>
                      contains_contact_info(text, EMAIL_PATTERN, ph, so).ret = quick.ret

\* Several phone patterns matched, with different substrings.
C7_Witness ==
    /\ quick.called /\ Detailed
    /\ Cardinality(SetOf(detail.details.phones)) >= 2

\* The handles "@name" that follow a whitespace character in s.
HandlesAfterSpace(s) ==
    { Slice(s, i, i + 1 + RunLength(HandleChars.s, -1, s, i + 1)) :
        i \in { j \in 1..(Len(s) - 2) :
                  /\ s[j] \in Spaces
                  /\ s[j + 1] = "@"
                  /\ s[j + 2] \in Letters \cup { "_" }
                  /\ RunLength(HandleChars.s, -1, s, j + 1) <= 15 } }

\* C8: when an @handle follows whitespace, the result is flagged and its
\* social category lists the handle itself, from the "@".
C8_HandleListed ==
    (Detailed /\ HandlesAfterSpace(text.chars) # {}) =>
        /\ detail.has_contact_info
        /\ HandlesAfterSpace(text.chars) \subseteq SetOf(detail.details.social)

\* C9: each category lists exactly the matches of all of its patterns
\* anywhere in the text, whatever matched before.
C9_AllPatternsAllMatches ==
    Detailed =>
        /\ SetOf(detail.details.emails) = SetOf(FindAll(EmailPatternInit, text.chars))
        /\ SetOf(detail.details.phones) =
              UNION { SetOf(FindAll(PhonePatternsInit[k], text.chars)) :
                        k \in 1..Len(PhonePatternsInit) }
        /\ SetOf(detail.details.social) =
              UNION { SetOf(FindAll(SocialPatternsInit[k], text.chars)) :
                        k \in 1..Len(SocialPatternsInit) }

\* An address was found, and still three different phone substrings and a
\* social one are listed.
C9_Witness ==
    /\ Detailed
    /\ detail.details.emails # << >>
    /\ Cardinality(SetOf(detail.details.phones)) >= 3
    /\ detail.details.social # << >>

\* The matchers in the order of the source.
MatcherOrder ==
    Evaluated("email", 1) \o Evaluated("phone", Len(PhonePatternsInit))
                          \o Evaluated("social", Len(SocialPatternsInit))
PatternOf(m) ==
    CASE m[1] = "email" -> EmailPatternInit
      [] m[1] = "phone" -> PhonePatternsInit[m[2]]
      [] m[1] = "social" -> SocialPatternsInit[m[2]]

\* C10: the boolean check evaluates the matchers in the fixed order, stops
\* with true at the first that matches, and returns false only when it has
\* evaluated them all.
C10_FixedOrderShortCircuit ==
    (quick.called /\ NonEmptyText) =>
        LET ev == quick.evaluated
            n == Len(ev)
        IN  /\ n >= 1 /\ n <= Len(MatcherOrder)
            /\ ev = SubSeq(MatcherOrder, 1, n)
            /\ \A j \in 1..(n - 1) : ~Search(PatternOf(ev[j]), text.chars)
            /\ quick.ret <=> Search(PatternOf(ev[n]), text.chars)
            /\ ~quick.ret => n = Len(MatcherOrder)

\* The check stopped at a phone pattern that is not the first.
C10_Witness ==
    /\ quick.called /\ NonEmptyText
    /\ quick.ret
    /\ quick.evaluated[Len(quick.evaluated)][1] = "phone"
    /\ quick.evaluated[Len(quick.evaluated)][2] > 1

=============================================================================
